---- MODULE Spec2Model ----
(***************************************************************************)
(* A model of the brainfuck interpreter of src/src/main.rs: the execution  *)
(* state (ProgramState), its step transition with both bracket scans, and  *)
(* the driver loop Program::run.                                           *)
(*                                                                         *)
(* Rust indexes from 0 and TLA+ sequences from 1: the instruction the code *)
(* calls code[i] is code[i + 1] here, and every pointer of the model keeps *)
(* the value it has in the program.                                        *)
(*                                                                         *)
(* A run ends in one of three ways: Program::run returns Ok(()), it        *)
(* returns the Err of a step, or the process panics (an index out of       *)
(* bounds, or an arithmetic overflow in a build with overflow checks).     *)
(***************************************************************************)
EXTENDS Integers, Sequences, FiniteSets, TLC

(* ------------------------------------------------------------------ *)
(* Program constants                                                    *)
(* ------------------------------------------------------------------ *)

\* const PROGRAM_MEMORY_SIZE: usize = 8
PROGRAM_MEMORY_SIZE == 8

\* The number of values of a u8 memory cell.
CellModulus == 256

\* usize::MAX.  TLC's integers are 32 bits wide, so the model writes the
\* largest value TLC holds for it.  A pointer outside the memory can only be
\* moved by a straight run of '>' or '<' (every other instruction indexes
\* the memory with it and panics), so the out-of-range values a program
\* reaches lie within its length of 8 or of usize::MAX, and no behaviour
\* depends on the width.
UsizeMax == 2147483647

(* ------------------------------------------------------------------ *)
(* Bounds of the model                                                  *)
(* ------------------------------------------------------------------ *)

\* Every instruction sequence up to this length is run.
MaxCodeLen == 4

\* The number of step calls of one run that are explored.
MaxSteps == 10

(* ------------------------------------------------------------------ *)
(* enum Command                                                         *)
(* ------------------------------------------------------------------ *)

IncrementPointer == ">"
DecrementPointer == "<"
IncrementValue == "+"
DecrementValue == "-"
OutputValue == "."
InputValue == ","
JumpForward == "["
JumpBackward == "]"

Command ==
    { IncrementPointer, DecrementPointer, IncrementValue, DecrementValue,
      OutputValue, InputValue, JumpForward, JumpBackward }

\* #[default] Unknown: the first variant of the enum, which no program holds
\* once it is decoded.
Unknown == "?"

\* #[repr(u8)]: the discriminants, b'>' and so on as ASCII codes; Unknown is
\* given none and, being first, has 0.
Discriminant ==
    [c \in Command \cup {Unknown} |->
        CASE c = IncrementPointer -> 62
          [] c = DecrementPointer -> 60
          [] c = IncrementValue -> 43
          [] c = DecrementValue -> 45
          [] c = OutputValue -> 46
          [] c = InputValue -> 44
          [] c = JumpForward -> 91
          [] c = JumpBackward -> 93
          [] OTHER -> 0]

\* Command::from(b), derived by FromPrimitive: the variant whose discriminant
\* is b, and the default variant when there is none.
Decode(b) ==
    IF \E c \in Command : Discriminant[c] = b
    THEN CHOOSE c \in Command : Discriminant[c] = b
    ELSE Unknown

\* FilterMap as it would be if it were a plain map: Unknown stays in the
\* sequence.
FilterMapKeepUnknown(bytes) == [k \in 1 .. Len(bytes) |-> Decode(bytes[k])]

\* .iter().filter_map(|b| match Command::from(*b) { Command::Unknown => None,
\* command => Some(command) }).collect()
FilterMap(bytes) ==
    LET IsKnown(command) == command # Unknown
        decoded == [k \in 1 .. Len(bytes) |-> Decode(bytes[k])]
    IN SelectSeq(decoded, IsKnown)

\* The bytes of a file that decodes to the instruction sequence c.
Bytes(c) == [k \in 1 .. Len(c) |-> Discriminant[c[k]]]

(* ------------------------------------------------------------------ *)
(* Machine arithmetic                                                   *)
(* ------------------------------------------------------------------ *)

\* x += 1 and x -= 1 on a usize, x += 1 and x -= 1 on a u8: the wrapped
\* value, and whether the operation overflowed.  A build with overflow
\* checks (debug) panics on overflow, one without (release) keeps the
\* wrapped value.
UsizeInc(x) ==
    IF x = UsizeMax THEN [overflow |-> TRUE, value |-> 0]
    ELSE [overflow |-> FALSE, value |-> x + 1]

UsizeDec(x) ==
    IF x = 0 THEN [overflow |-> TRUE, value |-> UsizeMax]
    ELSE [overflow |-> FALSE, value |-> x - 1]

U8Inc(x) ==
    [overflow |-> (x + 1 >= CellModulus), value |-> (x + 1) % CellModulus]

U8Dec(x) ==
    [overflow |-> (x - 1 < 0), value |-> (x - 1) % CellModulus]

(* ------------------------------------------------------------------ *)
(* Outcomes of a step                                                   *)
(* ------------------------------------------------------------------ *)

\* What one call of step does: it returns Ok(new_state) or Err(e), or it
\* panics.  written and read are the bytes the call handed to the output
\* sink and took from the input source before it ended.
Outcome(kind, e, s, out, inp) ==
    [kind |-> kind, error |-> e, state |-> s, written |-> out, read |-> inp]

StepOk(new_state) == Outcome("Ok", "none", new_state, <<>>, <<>>)

StepPanic(self, e) == Outcome("Panic", e, self, <<>>, <<>>)

\* An arithmetic result r in a build: an overflow panics under overflow
\* checks and wraps without them.
Overflows(r, checks) == r.overflow /\ checks

\* memory[data_ptr] is bounds checked.
InMemory(data_ptr) == data_ptr >= 0 /\ data_ptr < PROGRAM_MEMORY_SIZE

\* fn get_value(&self) -> u8, where the index is in bounds.
get_value(self) == self.memory[self.data_ptr]


(* ------------------------------------------------------------------ *)
(* The bracket scans of step                                            *)
(* ------------------------------------------------------------------ *)

\* ScanForward as it would be if it did not count nested '[': it stops at
\* the first ']'.
RECURSIVE ScanForwardFlat(_, _, _)
ScanForwardFlat(code, instruct_ptr, bracket_counter) ==
    IF instruct_ptr < Len(code) /\ bracket_counter > 0
    THEN LET next_ptr == instruct_ptr + 1 IN
         IF next_ptr >= Len(code)
         THEN [panic |-> "IndexOutOfBounds", instruct_ptr |-> next_ptr]
         ELSE ScanForwardFlat(code, next_ptr,
                  IF code[next_ptr + 1] = JumpBackward
                  THEN bracket_counter - 1 ELSE bracket_counter)
    ELSE [panic |-> "none", instruct_ptr |-> instruct_ptr]

\* The loop of the JumpForward arm, entered with the pointer on the '[' and
\* bracket_counter = 1.  It ends with the pointer the arm stores, or it
\* panics when code[instruct_ptr] is indexed at code.len().
RECURSIVE ScanForward(_, _, _)
ScanForward(code, instruct_ptr, bracket_counter) ==
    IF instruct_ptr < Len(code) /\ bracket_counter > 0
    THEN LET next_ptr == instruct_ptr + 1 IN
         IF next_ptr >= Len(code)
         THEN [panic |-> "IndexOutOfBounds", instruct_ptr |-> next_ptr]
         ELSE ScanForward(code, next_ptr,
                  CASE code[next_ptr + 1] = JumpForward -> bracket_counter + 1
                    [] code[next_ptr + 1] = JumpBackward -> bracket_counter - 1
                    [] OTHER -> bracket_counter)
    ELSE [panic |-> "none", instruct_ptr |-> instruct_ptr]

\* ScanBackward as it would be if it did not count nested ']': it stops at
\* the first '['.
RECURSIVE ScanBackwardFlat(_, _, _, _)
ScanBackwardFlat(code, instruct_ptr, bracket_counter, checks) ==
    IF bracket_counter > 0
    THEN LET r == UsizeDec(instruct_ptr) IN
         IF Overflows(r, checks)
         THEN [panic |-> "Overflow", instruct_ptr |-> instruct_ptr]
         ELSE IF r.value >= Len(code)
         THEN [panic |-> "IndexOutOfBounds", instruct_ptr |-> r.value]
         ELSE ScanBackwardFlat(code, r.value,
                  IF code[r.value + 1] = JumpForward
                  THEN bracket_counter - 1 ELSE bracket_counter,
                  checks)
    ELSE [panic |-> "none", instruct_ptr |-> instruct_ptr]

\* The loop of the JumpBackward arm, entered with the pointer on the ']'
\* and bracket_counter = 1.  instruct_ptr -= 1 at 0 overflows: a panic
\* under overflow checks, and without them the wrapped pointer indexes
\* code out of bounds.
RECURSIVE ScanBackward(_, _, _, _)
ScanBackward(code, instruct_ptr, bracket_counter, checks) ==
    IF bracket_counter > 0
    THEN LET r == UsizeDec(instruct_ptr) IN
         IF Overflows(r, checks)
         THEN [panic |-> "Overflow", instruct_ptr |-> instruct_ptr]
         ELSE IF r.value >= Len(code)
         THEN [panic |-> "IndexOutOfBounds", instruct_ptr |-> r.value]
         ELSE ScanBackward(code, r.value,
                  CASE code[r.value + 1] = JumpForward -> bracket_counter - 1
                    [] code[r.value + 1] = JumpBackward -> bracket_counter + 1
                    [] OTHER -> bracket_counter,
                  checks)
    ELSE [panic |-> "none", instruct_ptr |-> instruct_ptr]

(* ------------------------------------------------------------------ *)
(* ProgramState::step                                                   *)
(* ------------------------------------------------------------------ *)

\* ProgramState::new()
ProgramStateNew ==
    [data_ptr |-> 0, instruct_ptr |-> 0,
     memory |-> [a \in 0 .. PROGRAM_MEMORY_SIZE - 1 |-> 0]]

\* IncrementPointerArm as it would be if the pointer stopped at the last cell.
IncrementPointerArmClamped(new_state, checks) ==
    IF new_state.data_ptr >= PROGRAM_MEMORY_SIZE - 1
    THEN StepOk(new_state)
    ELSE StepOk([new_state EXCEPT !.data_ptr = new_state.data_ptr + 1])

\* Command::IncrementPointer => new_state.data_ptr += 1
IncrementPointerArm(new_state, checks) ==
    LET r == UsizeInc(new_state.data_ptr) IN
    IF Overflows(r, checks) THEN StepPanic(new_state, "Overflow")
    ELSE StepOk([new_state EXCEPT !.data_ptr = r.value])

\* Command::DecrementPointer => new_state.data_ptr -= 1
DecrementPointerArm(new_state, checks) ==
    LET r == UsizeDec(new_state.data_ptr) IN
    IF Overflows(r, checks) THEN StepPanic(new_state, "Overflow")
    ELSE StepOk([new_state EXCEPT !.data_ptr = r.value])

\* Command::IncrementValue => new_state.memory[new_state.data_ptr] += 1
IncrementValueArm(new_state, checks) ==
    IF ~InMemory(new_state.data_ptr)
    THEN StepPanic(new_state, "IndexOutOfBounds")
    ELSE LET r == U8Inc(get_value(new_state)) IN
         IF Overflows(r, checks) THEN StepPanic(new_state, "Overflow")
         ELSE StepOk([new_state EXCEPT !.memory[new_state.data_ptr] = r.value])

\* Command::DecrementValue => new_state.memory[new_state.data_ptr] -= 1
DecrementValueArm(new_state, checks) ==
    IF ~InMemory(new_state.data_ptr)
    THEN StepPanic(new_state, "IndexOutOfBounds")
    ELSE LET r == U8Dec(get_value(new_state)) IN
         IF Overflows(r, checks) THEN StepPanic(new_state, "Overflow")
         ELSE StepOk([new_state EXCEPT !.memory[new_state.data_ptr] = r.value])

\* OutputValueArm as it would be if it wrote the data pointer instead of
\* the cell under it.
OutputValueArmPointer(new_state, io) ==
    IF ~InMemory(new_state.data_ptr)
    THEN StepPanic(new_state, "IndexOutOfBounds")
    ELSE IF io.write = "Err"
    THEN Outcome("Err", "WriteFailed", new_state, <<>>, <<>>)
    ELSE Outcome("Ok", "none", new_state, <<new_state.data_ptr>>, <<>>)

\* OutputValueArm as it would be if the result of write_all were dropped
\* like that of flush.
OutputValueArmIgnoringError(new_state, io) ==
    IF ~InMemory(new_state.data_ptr)
    THEN StepPanic(new_state, "IndexOutOfBounds")
    ELSE IF io.write = "Err"
    THEN Outcome("Ok", "none", new_state, <<>>, <<>>)
    ELSE Outcome("Ok", "none", new_state, <<get_value(new_state)>>, <<>>)

\* Command::OutputValue: write_all(&[value])? returns the sink's error from
\* step; the result of flush() is dropped.
OutputValueArm(new_state, io) ==
    IF ~InMemory(new_state.data_ptr)
    THEN StepPanic(new_state, "IndexOutOfBounds")
    ELSE IF io.write = "Err"
    THEN Outcome("Err", "WriteFailed", new_state, <<>>, <<>>)
    ELSE Outcome("Ok", "none", new_state, <<get_value(new_state)>>, <<>>)

\* InputValueArm as it would be if it returned the failure of a read that
\* delivers no byte.
InputValueArmPropagating(new_state, io) ==
    IF io.read = <<>>
    THEN Outcome("Err", "ReadFailed", new_state, <<>>, <<>>)
    ELSE IF ~InMemory(new_state.data_ptr)
    THEN Outcome("Panic", "IndexOutOfBounds", new_state, <<>>, io.read)
    ELSE Outcome("Ok", "none",
                 [new_state EXCEPT !.memory[new_state.data_ptr] = io.read[1]],
                 <<>>, io.read)

\* InputValueArm as it would be if the byte went through a 7-bit character.
InputValueArmSevenBit(new_state, io) ==
    LET buf == IF io.read = <<>> THEN 0 ELSE io.read[1] % 128 IN
    IF ~InMemory(new_state.data_ptr)
    THEN Outcome("Panic", "IndexOutOfBounds", new_state, <<>>, io.read)
    ELSE Outcome("Ok", "none",
                 [new_state EXCEPT !.memory[new_state.data_ptr] = buf],
                 <<>>, io.read)

\* InputValueArm as it would be if the byte were stored in the first cell.
InputValueArmFirstCell(new_state, io) ==
    LET buf == IF io.read = <<>> THEN 0 ELSE io.read[1] IN
    IF ~InMemory(new_state.data_ptr)
    THEN Outcome("Panic", "IndexOutOfBounds", new_state, <<>>, io.read)
    ELSE Outcome("Ok", "none", [new_state EXCEPT !.memory[0] = buf],
                 <<>>, io.read)

\* Command::InputValue: buf starts as [0] and read() fills it when a byte
\* is there; the result of read() is dropped, and the byte is taken from
\* the source before the memory is indexed.
InputValueArm(new_state, io) ==
    LET buf == IF io.read = <<>> THEN 0 ELSE io.read[1] IN
    IF ~InMemory(new_state.data_ptr)
    THEN Outcome("Panic", "IndexOutOfBounds", new_state, <<>>, io.read)
    ELSE Outcome("Ok", "none",
                 [new_state EXCEPT !.memory[new_state.data_ptr] = buf],
                 <<>>, io.read)

\* JumpForwardArm as it would be with its test inverted: the jump is taken
\* on a nonzero cell.
JumpForwardArmInverted(new_state, code) ==
    IF ~InMemory(new_state.data_ptr)
    THEN StepPanic(new_state, "IndexOutOfBounds")
    ELSE IF get_value(new_state) # 0
    THEN LET scan == ScanForward(code, new_state.instruct_ptr, 1) IN
         IF scan.panic # "none" THEN StepPanic(new_state, scan.panic)
         ELSE StepOk([new_state EXCEPT !.instruct_ptr = scan.instruct_ptr])
    ELSE StepOk(new_state)

\* JumpForwardArm as it would be if the scan stopped one past the matching
\* ']'.
JumpForwardArmOvershoot(new_state, code) ==
    IF ~InMemory(new_state.data_ptr)
    THEN StepPanic(new_state, "IndexOutOfBounds")
    ELSE IF get_value(new_state) = 0
    THEN LET scan == ScanForward(code, new_state.instruct_ptr, 1) IN
         IF scan.panic # "none" THEN StepPanic(new_state, scan.panic)
         ELSE StepOk([new_state EXCEPT !.instruct_ptr = scan.instruct_ptr + 1])
    ELSE StepOk(new_state)

\* Command::JumpForward
JumpForwardArm(new_state, code) ==
    IF ~InMemory(new_state.data_ptr)
    THEN StepPanic(new_state, "IndexOutOfBounds")
    ELSE IF get_value(new_state) = 0
    THEN LET scan == ScanForward(code, new_state.instruct_ptr, 1) IN
         IF scan.panic # "none" THEN StepPanic(new_state, scan.panic)
         ELSE StepOk([new_state EXCEPT !.instruct_ptr = scan.instruct_ptr])
    ELSE StepOk(new_state)

\* JumpBackwardArm as it would be with its test inverted: the jump is taken
\* on a zero cell.
JumpBackwardArmInverted(new_state, code, checks) ==
    IF ~InMemory(new_state.data_ptr)
    THEN StepPanic(new_state, "IndexOutOfBounds")
    ELSE IF get_value(new_state) = 0
    THEN LET scan == ScanBackward(code, new_state.instruct_ptr, 1, checks) IN
         IF scan.panic # "none" THEN StepPanic(new_state, scan.panic)
         ELSE StepOk([new_state EXCEPT !.instruct_ptr = scan.instruct_ptr])
    ELSE StepOk(new_state)

\* Command::JumpBackward
JumpBackwardArm(new_state, code, checks) ==
    IF ~InMemory(new_state.data_ptr)
    THEN StepPanic(new_state, "IndexOutOfBounds")
    ELSE IF get_value(new_state) # 0
    THEN LET scan == ScanBackward(code, new_state.instruct_ptr, 1, checks) IN
         IF scan.panic # "none" THEN StepPanic(new_state, scan.panic)
         ELSE StepOk([new_state EXCEPT !.instruct_ptr = scan.instruct_ptr])
    ELSE StepOk(new_state)

\* NextInstruction as it would be without the final increment.
NextInstructionStays(arm, checks) == arm

\* new_state.instruct_ptr += 1; Ok(new_state)
NextInstruction(arm, checks) ==
    LET r == UsizeInc(arm.state.instruct_ptr) IN
    IF Overflows(r, checks)
    THEN Outcome("Panic", "Overflow", arm.state, arm.written, arm.read)
    ELSE [arm EXCEPT !.state.instruct_ptr = r.value]

\* pub fn step(&self, code: &[Command]) -> Result<ProgramState>, called with
\* instruct_ptr < code.len().  io holds what the output sink and the input
\* source answer should the command ask them.  An Err or a panic leaves self
\* as it was: only Ok carries a new state.
step(self, code, checks, io) ==
    LET command == code[self.instruct_ptr + 1]
        arm == CASE command = IncrementPointer -> IncrementPointerArm(self, checks)
                 [] command = DecrementPointer -> DecrementPointerArm(self, checks)
                 [] command = IncrementValue -> IncrementValueArm(self, checks)
                 [] command = DecrementValue -> DecrementValueArm(self, checks)
                 [] command = OutputValue -> OutputValueArm(self, io)
                 [] command = InputValue -> InputValueArm(self, io)
                 [] command = JumpForward -> JumpForwardArm(self, code)
                 [] command = JumpBackward -> JumpBackwardArm(self, code, checks)
                 [] OTHER -> StepOk(self)
    IN  IF arm.kind = "Ok" THEN NextInstruction(arm, checks)
        ELSE [arm EXCEPT !.state = self]

(* ------------------------------------------------------------------ *)
(* State                                                                *)
(* ------------------------------------------------------------------ *)

VARIABLES
    raw,              \* the bytes of the program file
    code,             \* the instruction sequence handed to Program::run
    overflow_checks,  \* whether the build panics on arithmetic overflow
    state,            \* Program.state
    result,           \* "Loading" until the file is decoded, "Running", or
                      \* how the run ended: "Ok", "Err", "Panic"
    error,            \* the error of an Err, the cause of a Panic
    output,           \* the bytes the output sink has accepted, in order
    input,            \* the bytes taken from the input source, in order
    steps,            \* the number of calls of step so far
    executed,         \* per command, the number of calls of step on it
    last              \* the latest call of step: its self, how it ended, and
                      \* what the sink and the source had to answer it

vars ==
    <<raw, code, overflow_checks, state, result, error, output, input,
      steps, executed, last>>

(* ------------------------------------------------------------------ *)
(* The environment                                                      *)
(* ------------------------------------------------------------------ *)

\* The bytes the model lets the input source deliver.
InputBytes == {0, 88, 255}

\* io::stdout().write_all(..) and .flush() each succeed or fail.
WriteResults == {"Ok", "Err"}
FlushResults == {"Ok", "Err"}

\* io::stdin().read(&mut buf): one byte, or none (end of stream, or a failed
\* read).
ReadResults == {<<b>> : b \in InputBytes} \cup {<<>>}

\* What a command that does no I/O is handed.
NoIO == [write |-> "Ok", flush |-> "Ok", read |-> <<>>]

(* ------------------------------------------------------------------ *)
(* Instruction sequences                                                *)
(* ------------------------------------------------------------------ *)

\* Longer programs than MaxCodeLen allows, run beside the short ones: a
\* pointer walked off the right end of the memory, loops nested in loops, a
\* cell moved into its neighbour.
SampleCode ==
    { <<">", ">", ">", ">", ">", ">", ">", ">">>,
      <<">", ">", ">", ">", ">", ">", ">", "<", ">", ">", "+">>,
      <<"+", "[", ">", "[", "]", "<", "]">>,
      <<"+", "[", "[", "-", "]", "]", ".">>,
      <<"+", "[", "-", "[", "+", "]", "]">>,
      <<"[", "[", "+", "]", "[", "]", "]", "+", ".">>,
      <<"+", "+", "[", ">", "+", "<", "-", "]">>,
      <<",", "[", ".", "-", "]">>,
      <<"+", "+", "+", ".">>,
      <<"+", "[", "-", "]", ".">>,
      <<",", ".", ",", ".">>,
      <<">", ">", ">", ",", "+", ".">> }

\* A program that marks the first cell, walks to cell d and there moves one
\* way and then the other.
Moves(d, pair) ==
    <<IncrementValue>> \o [k \in 1 .. d |-> IncrementPointer] \o pair

MoveCode ==
    { Moves(d, pair) :
        d \in 0 .. PROGRAM_MEMORY_SIZE - 1,
        pair \in { <<IncrementPointer, DecrementPointer>>,
                   <<DecrementPointer, IncrementPointer>> } }

AllCode ==
    SampleCode \cup MoveCode
        \cup UNION { [1 .. n -> Command] : n \in 0 .. MaxCodeLen }

(* ------------------------------------------------------------------ *)
(* Program::run                                                         *)
(* ------------------------------------------------------------------ *)

\* Before the first call of step there is no latest call.
NoStep ==
    [self |-> ProgramStateNew, kind |-> "None", write |-> "Ok", read |-> <<>>]

\* Program::new() followed by program.run(&code), in either build.
Init ==
    /\ code \in AllCode
    /\ raw = Bytes(code)
    /\ overflow_checks \in BOOLEAN
    /\ state = ProgramStateNew
    /\ result = "Running"
    /\ error = "none"
    /\ output = <<>>
    /\ input = <<>>
    /\ steps = 0
    /\ executed = [c \in Command |-> 0]
    /\ last = NoStep

\* while self.state.instruct_ptr < code.len()
LoopCondition(self, c) == self.instruct_ptr < Len(c)

\* Propagate as it would be if the loop dropped the failure of a step and
\* went on.
PropagateSwallowed(kind) == "Running"

\* The `?` of self.state.step(code)?: an Err ends run with that Err, and a
\* panic ends the process.
Propagate(kind) == IF kind = "Ok" THEN "Running" ELSE kind


\* One iteration of the loop of run, on a command among `commands`:
\* self.state = self.state.step(code)?
RunStep(commands, max_steps, io) ==
    /\ result = "Running"
    /\ LoopCondition(state, code)
    /\ steps < max_steps
    /\ code[state.instruct_ptr + 1] \in commands
    /\ \E r \in {step(state, code, overflow_checks, io)} :
        /\ state' = r.state
        /\ result' = Propagate(r.kind)
        /\ error' = r.error
        /\ output' = output \o r.written
        /\ input' = input \o r.read
        /\ steps' = steps + 1
        /\ executed' = [executed EXCEPT ![code[state.instruct_ptr + 1]] = @ + 1]
        /\ last' = [self |-> state, kind |-> r.kind,
                    write |-> io.write, read |-> io.read]
    /\ UNCHANGED <<raw, code, overflow_checks>>

StepIncrementPointer(max_steps) == RunStep({IncrementPointer}, max_steps, NoIO)

StepDecrementPointer(max_steps) == RunStep({DecrementPointer}, max_steps, NoIO)

StepIncrementValue(max_steps) == RunStep({IncrementValue}, max_steps, NoIO)

StepDecrementValue(max_steps) == RunStep({DecrementValue}, max_steps, NoIO)

StepOutputValue(max_steps, write_results) ==
    \E w \in write_results, f \in FlushResults :
        RunStep({OutputValue}, max_steps,
                [write |-> w, flush |-> f, read |-> <<>>])

StepInputValue(max_steps) ==
    \E r \in ReadResults :
        RunStep({InputValue}, max_steps,
                [write |-> "Ok", flush |-> "Ok", read |-> r])

StepJumpForward(max_steps) == RunStep({JumpForward}, max_steps, NoIO)

StepJumpBackward(max_steps) == RunStep({JumpBackward}, max_steps, NoIO)

\* The loop condition fails: Ok(())
RunReturn ==
    /\ result = "Running"
    /\ ~LoopCondition(state, code)
    /\ result' = "Ok"
    /\ UNCHANGED <<raw, code, overflow_checks, state, error, output, input,
                   steps, executed, last>>

Next ==
    \/ StepIncrementPointer(MaxSteps)
    \/ StepDecrementPointer(MaxSteps)
    \/ StepIncrementValue(MaxSteps)
    \/ StepDecrementValue(MaxSteps)
    \/ StepOutputValue(MaxSteps, WriteResults)
    \/ StepInputValue(MaxSteps)
    \/ StepJumpForward(MaxSteps)
    \/ StepJumpBackward(MaxSteps)
    \/ RunReturn

Spec == Init /\ [][Next]_vars

(* ------------------------------------------------------------------ *)
(* Vocabulary of the properties                                         *)
(* ------------------------------------------------------------------ *)

\* The number of unclosed '[' among the first k instructions of c.
Depth(c, k) ==
    Cardinality({ m \in 1 .. k : c[m] = JumpForward })
        - Cardinality({ m \in 1 .. k : c[m] = JumpBackward })

\* Every ']' closes an earlier '[' and every '[' is closed.
Balanced(c) ==
    /\ \A k \in 0 .. Len(c) : Depth(c, k) >= 0
    /\ Depth(c, Len(c)) = 0

\* j is the ']' that matches the '[' at i under nesting: the first place
\* after i where the depth is back to what it was before i.
Matches(c, i, j) ==
    /\ i >= 0 /\ i < j /\ j < Len(c)
    /\ c[i + 1] = JumpForward
    /\ c[j + 1] = JumpBackward
    /\ Depth(c, j + 1) = Depth(c, i)
    /\ \A k \in i + 1 .. j - 1 : Depth(c, k + 1) > Depth(c, i)

HasMatchClose(c, i) == \E j \in 0 .. Len(c) - 1 : Matches(c, i, j)
MatchClose(c, i) == CHOOSE j \in 0 .. Len(c) - 1 : Matches(c, i, j)

HasMatchOpen(c, j) == \E i \in 0 .. Len(c) - 1 : Matches(c, i, j)
MatchOpen(c, j) == CHOOSE i \in 0 .. Len(c) - 1 : Matches(c, i, j)

\* There has been a call of step; the command the latest call was on, and
\* the cell under its data pointer (-1 when the pointer is outside the
\* memory).
Stepped == steps > 0
LastCommand == code[last.self.instruct_ptr + 1]
LastValue ==
    IF InMemory(last.self.data_ptr) THEN get_value(last.self) ELSE -1

(* ------------------------------------------------------------------ *)
(* C1 .. C4: pointer range and unmatched brackets                       *)
(* ------------------------------------------------------------------ *)

\* C1: in every state reachable by Program::run the data pointer satisfies
\* 0 <= data_pointer < memory_size.
C1_DataPointerInRange == InMemory(state.data_ptr)

\* C2: a move-left step at data_pointer = 0 and a move-right step at
\* data_pointer = memory_size - 1 fail with a pointer-out-of-range error
\* that aborts the run, and leave no out-of-range or wrapped pointer.
C2_MoveOutOfRangeFails ==
    (/\ Stepped
     /\ \/ LastCommand = DecrementPointer /\ last.self.data_ptr = 0
        \/ /\ LastCommand = IncrementPointer
           /\ last.self.data_ptr = PROGRAM_MEMORY_SIZE - 1)
    => /\ last.kind = "Err"
       /\ result = "Err"
       /\ error = "PointerOutOfRange"
       /\ InMemory(state.data_ptr)

\* C3: a '[' with no matching ']' executed on a zero cell makes the run
\* fail with a reported unmatched-bracket error.
C3_UnmatchedOpenReported ==
    (/\ Stepped
     /\ LastCommand = JumpForward
     /\ LastValue = 0
     /\ ~HasMatchClose(code, last.self.instruct_ptr))
    => /\ last.kind = "Err"
       /\ result = "Err"
       /\ error = "UnmatchedBracket"

\* C4: a ']' with no matching '[' executed on a nonzero cell makes the run
\* fail with a reported unmatched-bracket error.
C4_UnmatchedCloseReported ==
    (/\ Stepped
     /\ LastCommand = JumpBackward
     /\ LastValue > 0
     /\ ~HasMatchOpen(code, last.self.instruct_ptr))
    => /\ last.kind = "Err"
       /\ result = "Err"
       /\ error = "UnmatchedBracket"

(* ------------------------------------------------------------------ *)
(* C5: the driver loop                                                  *)
(* ------------------------------------------------------------------ *)

C5_RunLoopInv ==
    \* step is only ever called with instruction_pointer < sequence length
    /\ Stepped => last.self.instruct_ptr < Len(code)
    \* a failed call ends the run with its failure, and only that does
    /\ (Stepped /\ last.kind # "Ok") => result = last.kind
    /\ result \in {"Err", "Panic"} => Stepped /\ last.kind = result
    \* success is returned only at the end of the sequence
    /\ result = "Ok" => state.instruct_ptr = Len(code)

C5_RunLoopAct ==
    \* once the run has ended nothing more happens: no step, no output
    /\ result # "Running" => UNCHANGED vars
    \* at the end of the sequence the run returns success and does not step
    /\ (result = "Running" /\ state.instruct_ptr = Len(code))
           => result' = "Ok" /\ steps' = steps /\ output' = output
    \* before the end it does not return success: it steps
    /\ (result = "Running" /\ state.instruct_ptr < Len(code))
           => result' # "Ok" /\ steps' = steps + 1

\* C5: run applies step only while instruction_pointer < sequence length,
\* returns success exactly when the pointer has reached the length, and
\* returns the failure of the first failing step with no step after it.
C5_RunLoop == []C5_RunLoopInv /\ [][C5_RunLoopAct]_vars

\* A run aborted by a failing step with instructions still ahead of it.
C5_Witness ==
    /\ result = "Err"
    /\ steps >= 2
    /\ state.instruct_ptr + 1 < Len(code)

(* ------------------------------------------------------------------ *)
(* C6, C7: the jump targets                                             *)
(* ------------------------------------------------------------------ *)

\* C6: in a balanced sequence a '[' at i stepped on a zero cell leaves
\* instruction_pointer = j + 1 for the ']' at j matching i under nesting,
\* and stepped on a nonzero cell leaves it at i + 1.
C6_JumpForwardTarget ==
    (Stepped /\ Balanced(code) /\ LastCommand = JumpForward /\ LastValue >= 0)
    => /\ last.kind = "Ok"
       /\ state.instruct_ptr =
              IF LastValue = 0
              THEN MatchClose(code, last.self.instruct_ptr) + 1
              ELSE last.self.instruct_ptr + 1

\* A forward jump over a nested pair of brackets.
C6_Witness ==
    /\ Stepped /\ Balanced(code) /\ LastCommand = JumpForward
    /\ LastValue = 0
    /\ \E k \in last.self.instruct_ptr + 1 .. state.instruct_ptr - 2 :
           code[k + 1] = JumpBackward

\* C7: in a balanced sequence a ']' at j stepped on a nonzero cell leaves
\* instruction_pointer = i + 1 for the '[' at i matching j under nesting,
\* and stepped on a zero cell leaves it at j + 1.
C7_JumpBackwardTarget ==
    (Stepped /\ Balanced(code) /\ LastCommand = JumpBackward /\ LastValue >= 0)
    => /\ last.kind = "Ok"
       /\ state.instruct_ptr =
              IF LastValue # 0
              THEN MatchOpen(code, last.self.instruct_ptr) + 1
              ELSE last.self.instruct_ptr + 1

\* A backward jump over a nested pair of brackets.
C7_Witness ==
    /\ Stepped /\ Balanced(code) /\ LastCommand = JumpBackward
    /\ LastValue > 0
    /\ \E k \in state.instruct_ptr .. last.self.instruct_ptr - 1 :
           code[k + 1] = JumpForward

(* ------------------------------------------------------------------ *)
(* C8: a loop skipped on a zero cell                                    *)
(* ------------------------------------------------------------------ *)

\* The state is about to step a '[' of a balanced sequence on a zero cell.
AtSkippedLoop ==
    /\ result = "Running"
    /\ LoopCondition(state, code)
    /\ Balanced(code)
    /\ code[state.instruct_ptr + 1] = JumpForward
    /\ InMemory(state.data_ptr)
    /\ get_value(state) = 0

C8_SkipAct ==
    \* the instruction a step executes is the one under the instruction
    \* pointer, and no other
    /\ steps' # steps
           => /\ last'.self.instruct_ptr = state.instruct_ptr
              /\ executed' = [executed EXCEPT ![code[state.instruct_ptr + 1]] = @ + 1]
    \* and the skip leaves the instruction pointer past the matching ']'
    /\ (AtSkippedLoop /\ steps' # steps)
           => /\ result' = "Running" /\ error' = "none"
              /\ state'.memory = state.memory
              /\ state'.data_ptr = state.data_ptr
              /\ state'.instruct_ptr > MatchClose(code, state.instruct_ptr)
              /\ output' = output /\ input' = input

\* "[]" on the initial memory: one step, of the '[', then success.
C8_SkipInv ==
    code = <<JumpForward, JumpBackward>>
    => /\ result \in {"Running", "Ok"}
       /\ steps <= 1
       /\ executed[JumpBackward] = 0
       /\ result = "Ok" => steps = 1 /\ executed[JumpForward] = 1
       /\ state.memory = ProgramStateNew.memory /\ state.data_ptr = 0

\* C8: a '[' stepped on a zero cell in a balanced program executes nothing
\* up to and including its matching ']', changes neither memory nor data
\* pointer, and raises no error; "[]" ends with success after one step.
C8_LoopSkipped == []C8_SkipInv /\ [][C8_SkipAct]_vars

\* A loop with a body was skipped as the only step of a run that returned
\* success: nothing of the body was executed.
C8_Witness ==
    /\ result = "Ok"
    /\ steps = 1
    /\ LastCommand = JumpForward
    /\ LastValue = 0
    /\ Len(code) > 2

(* ------------------------------------------------------------------ *)
(* C10: the output                                                      *)
(* ------------------------------------------------------------------ *)

\* The output-cell steps that the sink accepted.
Emitted ==
    executed[OutputValue]
        - (IF Stepped /\ LastCommand = OutputValue /\ last.kind # "Ok"
           THEN 1 ELSE 0)

C10_OutputAct ==
    output' =
        IF /\ steps' # steps
           /\ code[state.instruct_ptr + 1] = OutputValue
           /\ last'.kind = "Ok"
        THEN Append(output, state.memory[state.data_ptr])
        ELSE output

\* C10: the bytes written to the output sink are, in order, the values
\* memory[data_pointer] held at each executed output-cell step: one byte
\* per such step and none from any other instruction.
C10_OutputInOrder == [](Len(output) = Emitted) /\ [][C10_OutputAct]_vars

\* "+++." has run and emitted the single byte 3.
C10_Witness ==
    /\ code = <<"+", "+", "+", ".">>
    /\ result = "Ok"
    /\ output = <<3>>

(* ------------------------------------------------------------------ *)
(* C9: the countdown loop                                               *)
(* ------------------------------------------------------------------ *)

\* The largest cell value: the longest countdown.
CountdownMax == CellModulus - 1

\* n '+' followed by "[-]."
Countdown(n) ==
    [k \in 1 .. n + 4 |->
        IF k <= n THEN IncrementValue
        ELSE <<JumpForward, DecrementValue, JumpBackward, OutputValue>>[k - n]]

\* More step calls than any countdown makes.
CountdownSteps == 4 * CellModulus

\* A countdown is run from a fresh state, in either build.
InitCountdown ==
    /\ code \in { Countdown(n) : n \in 1 .. CountdownMax }
    /\ raw = Bytes(code)
    /\ overflow_checks \in BOOLEAN
    /\ state = ProgramStateNew
    /\ result = "Running"
    /\ error = "none"
    /\ output = <<>>
    /\ input = <<>>
    /\ steps = 0
    /\ executed = [c \in Command |-> 0]
    /\ last = NoStep

\* The commands of a countdown, run against an output sink that captures
\* what is written to it and so accepts every write.
NextCountdown ==
    \/ StepIncrementValue(CountdownSteps)
    \/ StepDecrementValue(CountdownSteps)
    \/ StepOutputValue(CountdownSteps, {"Ok"})
    \/ StepJumpForward(CountdownSteps)
    \/ StepJumpBackward(CountdownSteps)
    \/ RunReturn

\* The next thing run does on a countdown, whatever its command: an
\* iteration of its loop, or its return.
RunCountdown == RunStep(Command, CountdownSteps, NoIO) \/ RunReturn

\* run is a loop that nothing suspends: while it can go on, it does.
SpecCountdown ==
    InitCountdown /\ [][NextCountdown]_vars /\ WF_vars(RunCountdown)

\* The n of the countdown being run, and how many times its loop body (its
\* only '-') has been stepped.
CountdownOf(c) == Len(c) - 4
BodyRuns == executed[DecrementValue]

\* C9: for every n in 1..255 the program of n '+' followed by "[-]."
\* eventually reaches the end of the sequence with success, its loop body
\* having run exactly n times and its only output being one byte 0.
C9_CountdownTerminates ==
    /\ <>(result = "Ok" /\ state.instruct_ptr = Len(code))
    /\ [](result = "Ok" => BodyRuns = CountdownOf(code) /\ output = <<0>>)
    /\ [](output \in {<<>>, <<0>>})

\* The longest countdown has ended in a build with overflow checks.
C9_Witness ==
    /\ code = Countdown(CountdownMax)
    /\ overflow_checks
    /\ result = "Ok"
    /\ BodyRuns = CountdownMax
    /\ output = <<0>>

(* ------------------------------------------------------------------ *)
(* C11: input exhaustion                                                *)
(* ------------------------------------------------------------------ *)

\* C11: an input-cell step that gets no byte from the input source (end of
\* stream, or a failed read) stores 0 into memory[data_pointer] and
\* succeeds, and the run goes on with the next instruction.
C11_InputExhaustion ==
    (Stepped /\ LastCommand = InputValue /\ last.read = <<>>
        /\ InMemory(last.self.data_ptr))
    => /\ last.kind = "Ok"
       /\ result \in {"Running", "Ok"}
       /\ error = "none"
       /\ state.memory[state.data_ptr] = 0
       /\ state.instruct_ptr = last.self.instruct_ptr + 1

\* An input-cell step got no byte and overwrote a nonzero cell with 0.
C11_Witness ==
    /\ Stepped /\ LastCommand = InputValue /\ last.read = <<>>
    /\ LastValue > 0
    /\ result = "Running"
    /\ state.memory[state.data_ptr] = 0

(* ------------------------------------------------------------------ *)
(* C12: input of a byte, and its echo                                   *)
(* ------------------------------------------------------------------ *)

\* Every value of the u8 that stdin().read puts into buf.
Byte == 0 .. (CellModulus - 1)

\* Programs that read and echo: one byte, one byte echoed twice, and two
\* bytes one after the other.
EchoCode ==
    { <<",", ".">>,
      <<",", ".", ".">>,
      <<",", ".", ",", ".">> }

InitEcho ==
    /\ code \in EchoCode
    /\ raw = Bytes(code)
    /\ overflow_checks \in BOOLEAN
    /\ state = ProgramStateNew
    /\ result = "Running"
    /\ error = "none"
    /\ output = <<>>
    /\ input = <<>>
    /\ steps = 0
    /\ executed = [c \in Command |-> 0]
    /\ last = NoStep

\* Command::InputValue with a byte of `bytes` waiting in the source.
StepInputByte(max_steps, bytes) ==
    \E b \in bytes :
        RunStep({InputValue}, max_steps,
                [write |-> "Ok", flush |-> "Ok", read |-> <<b>>])

\* The commands of an echo program, with a source that always has a byte
\* and a sink that accepts every write.
NextEcho ==
    \/ StepInputByte(MaxSteps, Byte)
    \/ StepOutputValue(MaxSteps, {"Ok"})
    \/ RunReturn

SpecEcho == InitEcho /\ [][NextEcho]_vars

\* An input-cell step with byte b waiting takes exactly that one byte from
\* the source, after the bytes taken before it, and leaves b in the cell.
C12_InputAct ==
    (steps' = steps + 1 /\ code[state.instruct_ptr + 1] = InputValue
        /\ last'.read # <<>>)
    => /\ Len(last'.read) = 1
       /\ input' = input \o last'.read
       /\ last'.kind = "Ok"
       /\ state'.data_ptr = state.data_ptr
       /\ state'.memory[state.data_ptr] = last'.read[1]

\* An output-cell step that follows an input-cell step writes the byte that
\* was read.
C12_EchoAct ==
    (steps' = steps + 1 /\ code[state.instruct_ptr + 1] = OutputValue
        /\ Stepped /\ LastCommand = InputValue /\ last.read # <<>>)
    => output' = Append(output, last.read[1])

\* C12: an input-cell step with a byte b available consumes exactly one
\* byte and sets memory[data_pointer] = b, for every b in 0..255 with no
\* translation; input-cell followed by output-cell emits b unchanged; and
\* successive input-cell steps consume successive bytes in order.
C12_InputStoresByte == [][C12_InputAct /\ C12_EchoAct]_vars

\* Two bytes were read, the second a byte above 127 and different from the
\* first, and both were echoed in the order they were read.
C12_Witness ==
    /\ result = "Ok"
    /\ code = <<",", ".", ",", ".">>
    /\ Len(input) = 2 /\ input[1] = 0 /\ input[2] = 200
    /\ output = input

(* ------------------------------------------------------------------ *)
(* C13: the pointer moves are inverse to each other                     *)
(* ------------------------------------------------------------------ *)

\* The latest step was the command `first`, it came back Ok, and it started
\* with the data pointer inside the memory.
MovedFrom(first) ==
    /\ Stepped /\ last.kind = "Ok" /\ LastCommand = first
    /\ InMemory(last.self.data_ptr)

\* This step runs the command `second`.
Runs(second) ==
    /\ steps' = steps + 1
    /\ code[state.instruct_ptr + 1] = second

\* The step succeeds and gives back the data pointer and the memory of
\* before the previous step.
BackWhereItWas ==
    /\ last'.kind = "Ok"
    /\ state'.data_ptr = last.self.data_ptr
    /\ state'.memory = last.self.memory

C13_RoundTripAct ==
    /\ (MovedFrom(IncrementPointer) /\ Runs(DecrementPointer)) => BackWhereItWas
    /\ (MovedFrom(DecrementPointer) /\ Runs(IncrementPointer)) => BackWhereItWas

\* C13: from every state with a valid data pointer d, the last cell
\* included, move-right then move-left gives data pointer d again with the
\* memory unchanged; and so does move-left then move-right wherever the
\* move-left is permitted (comes back Ok).
C13_MovesRoundTrip == [][C13_RoundTripAct]_vars

\* A move-right from the last cell followed by a move-left is back on the
\* last cell, the marked first cell kept.
C13_Witness ==
    /\ Stepped /\ last.kind = "Ok" /\ LastCommand = DecrementPointer
    /\ last.self.instruct_ptr > 0
    /\ code[last.self.instruct_ptr] = IncrementPointer
    /\ last.self.data_ptr = PROGRAM_MEMORY_SIZE
    /\ state.data_ptr = PROGRAM_MEMORY_SIZE - 1
    /\ state.memory[0] = 1

(* ------------------------------------------------------------------ *)
(* C14: increment-cell and decrement-cell as an inverse pair            *)
(* ------------------------------------------------------------------ *)

\* An increment-cell or decrement-cell step on a cell of the memory is
\* carried out, whatever the cell holds, and every cell holds a byte.
C14_CellInv ==
    /\ (Stepped /\ LastCommand \in {IncrementValue, DecrementValue}
            /\ InMemory(last.self.data_ptr))
       => last.kind = "Ok"
    /\ \A a \in DOMAIN state.memory : state.memory[a] \in Byte

\* The latest step was the command `first` on a cell of the memory.
ChangedCell(first) ==
    /\ Stepped /\ LastCommand = first
    /\ InMemory(last.self.data_ptr)

\* The step succeeds and gives the cell the value of before the previous
\* step.
CellAsItWas ==
    /\ last'.kind = "Ok"
    /\ state'.memory[state.data_ptr] = LastValue

C14_CellAct ==
    /\ (ChangedCell(IncrementValue) /\ Runs(DecrementValue)) => CellAsItWas
    /\ (ChangedCell(DecrementValue) /\ Runs(IncrementValue)) => CellAsItWas

\* C14: for every cell value v in 0..255, 255 for increment-first and 0 for
\* decrement-first included, increment-cell then decrement-cell on the same
\* cell, or decrement-cell then increment-cell, leaves the cell holding v,
\* and every cell always holds a value in 0..255.
C14_CellRoundTrip == []C14_CellInv /\ [][C14_CellAct]_vars

(* ------------------------------------------------------------------ *)
(* C15: decoding the program file                                       *)
(* ------------------------------------------------------------------ *)

MaxRawLen == 3

\* Bytes a program file is made of: the eight instruction bytes, and NUL,
\* newline, space, a letter and 0xFF for the rest.
RawBytes == { Discriminant[c] : c \in Command } \cup {0, 10, 32, 65, 255}

\* main before the file is decoded: nothing has run yet.
InitDecode ==
    /\ raw \in UNION { [1 .. n -> RawBytes] : n \in 0 .. MaxRawLen }
    /\ code = <<>>
    /\ overflow_checks \in BOOLEAN
    /\ state = ProgramStateNew
    /\ result = "Loading"
    /\ error = "none"
    /\ output = <<>>
    /\ input = <<>>
    /\ steps = 0
    /\ executed = [c \in Command |-> 0]
    /\ last = NoStep

\* let code: Vec<_> = std::fs::read(filename)...collect()
LoadProgram ==
    /\ result = "Loading"
    /\ code' = FilterMap(raw)
    /\ result' = "Running"
    /\ UNCHANGED <<raw, overflow_checks, state, error, output, input,
                   steps, executed, last>>

\* main: decode the file, then run what it decodes to.
NextDecode == LoadProgram \/ Next

SpecDecode == InitDecode /\ [][NextDecode]_vars

\* The instruction characters and the kind each stands for.
KindOf(b) ==
    CASE b = 62 -> IncrementPointer    \* '>'
      [] b = 60 -> DecrementPointer    \* '<'
      [] b = 43 -> IncrementValue      \* '+'
      [] b = 45 -> DecrementValue      \* '-'
      [] b = 46 -> OutputValue         \* '.'
      [] b = 44 -> InputValue          \* ','
      [] b = 91 -> JumpForward         \* '['
      [] b = 93 -> JumpBackward        \* ']'

InstructionBytes == {62, 60, 43, 45, 46, 44, 91, 93}

\* The positions of the file that hold an instruction byte, and the k-th of
\* them from the start.
InstructionPositions ==
    { i \in 1 .. Len(raw) : raw[i] \in InstructionBytes }

Position(k) ==
    CHOOSE i \in InstructionPositions :
        Cardinality({ j \in InstructionPositions : j <= i }) = k

\* C15: the decoded instruction sequence is exactly the subsequence of the
\* file's bytes that are one of > < + - . , [ ], in their original order,
\* each mapped to its own instruction kind; every other byte, byte 0
\* included, is removed and takes no slot, so the sequence never holds an
\* unknown instruction.
C15_DecodeIsSubsequence ==
    result # "Loading"
    => /\ Len(code) = Cardinality(InstructionPositions)
       /\ \A k \in 1 .. Len(code) :
            /\ code[k] \in Command
            /\ code[k] = KindOf(raw[Position(k)])

\* A file with a NUL between two instructions decoded to the two
\* instructions.
C15_Witness ==
    /\ result # "Loading"
    /\ raw = <<91, 0, 93>>
    /\ code = <<JumpForward, JumpBackward>>

(* ------------------------------------------------------------------ *)
(* C16: a rejected write                                                 *)
(* ------------------------------------------------------------------ *)

\* This step is an output-cell step on a cell of the memory whose write the
\* sink rejects.
WriteRejected ==
    /\ Runs(OutputValue)
    /\ InMemory(state.data_ptr)
    /\ last'.write = "Err"

C16_RejectedAct ==
    /\ WriteRejected
       => /\ last'.kind = "Err"
          /\ result' = "Err" /\ error' = "WriteFailed"
          /\ state' = state
          /\ output' = output
    /\ result = "Err" => UNCHANGED vars

\* C16: when the output sink rejects the write of an output-cell step, the
\* step returns a failure, the run aborts with that failure handed to its
\* caller, and the execution state (data pointer, instruction pointer,
\* memory) is left exactly as it was before the failed step.
C16_WriteRejected == [][C16_RejectedAct]_vars

\* A run that had moved, changed a cell and written a byte ended on a
\* rejected write, with the state of before that step.
C16_Witness ==
    /\ result = "Err" /\ error = "WriteFailed"
    /\ LastCommand = OutputValue /\ last.write = "Err"
    /\ state = last.self
    /\ state.instruct_ptr > 0 /\ state.data_ptr > 0
    /\ state.memory[state.data_ptr] > 0
    /\ Len(output) > 0

(* ------------------------------------------------------------------ *)
(* C17: how the instruction pointer moves                               *)
(* ------------------------------------------------------------------ *)

\* The command of self is a bracket whose jump is taken: '[' on a zero cell,
\* ']' on a nonzero cell.
JumpTaken(self, bracket) ==
    /\ code[self.instruct_ptr + 1] = bracket
    /\ InMemory(self.data_ptr)
    /\ IF bracket = JumpForward THEN get_value(self) = 0
                                ELSE get_value(self) # 0

C17_InstructPtrAct ==
    (steps' = steps + 1 /\ last'.kind = "Ok")
    => /\ (~JumpTaken(state, JumpForward) /\ ~JumpTaken(state, JumpBackward))
              => state'.instruct_ptr = state.instruct_ptr + 1
       /\ state'.instruct_ptr < state.instruct_ptr
              => JumpTaken(state, JumpBackward)
       /\ state'.instruct_ptr > state.instruct_ptr + 1
              => JumpTaken(state, JumpForward)

\* C17: every successful step of a move, increment, decrement, output or
\* input instruction, and of a bracket whose jump is not taken, increases
\* the instruction pointer by exactly one; the instruction pointer only
\* decreases on a taken backward jump and only increases by more than one on
\* a taken forward jump.
C17_InstructPtrMoves == [][C17_InstructPtrAct]_vars

\* A taken backward jump moved the instruction pointer back over a loop
\* body, in a run whose earlier steps each advanced it by one.
C17_Witness ==
    /\ Stepped /\ last.kind = "Ok" /\ LastCommand = JumpBackward
    /\ state.instruct_ptr + 3 < last.self.instruct_ptr
    /\ executed[JumpForward] = 1 /\ executed[JumpBackward] = 1
    /\ steps = last.self.instruct_ptr + 1

(* ------------------------------------------------------------------ *)
(* C18: the frame of a step                                             *)
(* ------------------------------------------------------------------ *)

\* Every cell but the one under the data pointer is as it was.
OtherCellsUnchanged ==
    \A a \in DOMAIN state.memory :
        a # state.data_ptr => state'.memory[a] = state.memory[a]

C18_FrameAct ==
    /\ code' = code
    /\ DOMAIN state'.memory = DOMAIN state.memory
    /\ steps' = steps + 1
       => LET command == code[state.instruct_ptr + 1] IN
          /\ command \in {IncrementPointer, DecrementPointer}
                => state'.memory = state.memory
          /\ command \in {IncrementValue, DecrementValue, InputValue}
                => /\ state'.data_ptr = state.data_ptr
                   /\ OtherCellsUnchanged
          /\ command \in {OutputValue, JumpForward, JumpBackward}
                => /\ state'.data_ptr = state.data_ptr
                   /\ state'.memory = state.memory

\* C18: move-right and move-left leave every memory cell unchanged;
\* increment-cell, decrement-cell and input-cell change only
\* memory[data_pointer] and leave the data pointer and all other cells
\* unchanged; output-cell and both brackets leave the data pointer and all
\* memory unchanged; no step changes the instruction sequence or the memory
\* length.
C18_Frame == [][C18_FrameAct]_vars

\* An input-cell step away from the first cell stored a nonzero byte in its
\* cell and left the nonzero first cell as it was.
C18_Witness ==
    /\ Stepped /\ last.kind = "Ok" /\ LastCommand = InputValue
    /\ state.data_ptr > 0 /\ InMemory(state.data_ptr)
    /\ state.memory[state.data_ptr] > 0
    /\ last.self.memory[state.data_ptr] = 0
    /\ state.memory[0] > 0
    /\ state.memory[0] = last.self.memory[0]
    /\ Cardinality(DOMAIN state.memory) = PROGRAM_MEMORY_SIZE

(* ------------------------------------------------------------------ *)
(* C19: the instruction pointer stays inside a balanced sequence        *)
(* ------------------------------------------------------------------ *)

\* The latest step was a bracket on a cell of the memory, so that whether it
\* came back Ok is a matter of the instruction sequence alone.
BracketStepped ==
    /\ Stepped
    /\ LastCommand \in {JumpForward, JumpBackward}
    /\ InMemory(last.self.data_ptr)

\* C19: for every bracket-balanced instruction sequence, in every state
\* reachable by Program::run the instruction pointer is between 0 and the
\* sequence length, step is only called with the instruction pointer below
\* the sequence length, and neither the fetch nor a bracket scan indexes
\* outside the sequence.
C19_InstructPtrInRange ==
    Balanced(code)
    => /\ 0 <= state.instruct_ptr /\ state.instruct_ptr <= Len(code)
       /\ Stepped => /\ 0 <= last.self.instruct_ptr
                     /\ last.self.instruct_ptr < Len(code)
       /\ BracketStepped => last.kind = "Ok"

\* A forward jump from the first instruction of a balanced sequence with a
\* nested loop landed exactly at the end of the sequence.
C19_Witness ==
    /\ Balanced(code) /\ Len(code) = 4
    /\ BracketStepped /\ LastCommand = JumpForward
    /\ last.self.instruct_ptr = 0
    /\ code[2] = JumpForward
    /\ state.instruct_ptr = Len(code)

====
